---- MODULE Spec2Model ----
(***************************************************************************)
(* ProjectEscrowImproved (src/unnamed/part_001, lines 504-1202): a         *)
(* milestone escrow with auto-approval, multi-admin dispute voting and an  *)
(* emergency pause.  The contract's storage is the state; every external   *)
(* function is an action.  A function that sends value is split at each    *)
(* `.transfer`: the recipient runs between the issue of a transfer and its *)
(* return, and (when `reentrant` holds) may call back into the contract.   *)
(* A call whose `require` fails reverts and is therefore no step at all.   *)
(*                                                                         *)
(* A transfer that its recipient rejects reverts the whole transaction,    *)
(* which is again no step.  `.transfer` forwards a stipend of 2300 gas;    *)
(* whether that pays for a call back depends on the chain's gas schedule,  *)
(* so both kinds of recipient are modelled.                                *)
(*                                                                         *)
(* Left out of the state: the opaque strings title, descriptionHash,       *)
(* description and reason, the write-only fields id, createdAt and         *)
(* acceptedAt, and the index userProjects; no modelled code path reads     *)
(* them.  The owner is the deployer throughout: Ownable's                  *)
(* transferOwnership and renounceOwnership are not modelled.  Events are   *)
(* not state; the percentage of DisputeResolved is kept in the history     *)
(* variable resolvedPct.                                                   *)
(***************************************************************************)
EXTENDS Integers, Sequences, FiniteSets, TLC

\* ---------------------------------------------------------------- bounds
\* The capacity of the project and dispute tables, and the depth to which
\* calls nest.  Each specification below creates at most `projects` projects.
MaxProjects == 2
MaxDisputes == 2
MaxDepth == 2
\* The number of ratings a run gives one user.
MaxRatings == 1

\* ------------------------------------------------------------- constants
DAY == 24 * 60 * 60
DISPUTE_TIMEOUT == 3 * DAY
AUTO_APPROVE_TIMEOUT == 7 * DAY
REQUIRED_ADMIN_VOTES == 2
InitialFeePercent == 2
MaxFeePercent == 10
ZeroAddress == 0
Owner == 1

\* ---------------------------------------------------------------- inputs
Addr == {1, 2, 3}
AllAddr == Addr \cup {ZeroAddress}
\* _milestoneAmounts / _milestoneDeadlines / msg.value of createProject; the
\* number of descriptions is all the contract reads of _milestoneDescriptions.
DescriptionCounts == {0, 1, 2}
ExcessValues == {-1, 0, 1}
MilestoneIds == {0, 1}
Hashes == {"", "QmHash"}
FarDeadline == 30 * DAY
ProjectIds == 0 .. (MaxProjects - 1)
DeadlineLists ==
    {<<>>, <<0>>, <<FarDeadline>>, <<FarDeadline, 0>>,
     <<FarDeadline, FarDeadline>>}
DisputeIds == 0 .. (MaxDisputes - 1)

VARIABLES
    projectCounter,     \* uint256 projectCounter
    disputeCounter,     \* uint256 disputeCounter
    platformFeePercent, \* uint256 platformFeePercent
    projects,           \* mapping(uint256 => Project)
    projectMilestones,  \* mapping(uint256 => Milestone[])
    disputes,           \* mapping(uint256 => Dispute)
    isAdmin,            \* mapping(address => bool)
    adminList,          \* address[]
    userRatings,        \* mapping(address => uint256)
    userRatingCount,    \* mapping(address => uint256)
    paused,             \* Pausable._paused
    locked,             \* ReentrancyGuard._status == ENTERED
    balance,            \* address(this).balance
    now,                \* block.timestamp
    block,              \* the number of the current block
    stack,              \* the calls in progress, each waiting in a transfer
    reentrant,          \* do transfer recipients call back into the contract?
    sent,               \* the transfers issued by the current transaction
    releaseCount,       \* history: payouts executed per (project, milestone)
    refundCount,        \* history: cancellation refunds executed per project
    resolvedPct         \* history: DisputeResolved(disputeId, avgPercentage)

rosterVars == <<isAdmin, adminList>>
configVars == <<paused, platformFeePercent>>
projectVars == <<projectCounter, projects, projectMilestones>>
disputeVars == <<disputeCounter, disputes>>
ratingVars == <<userRatings, userRatingCount>>
envVars == <<now, block, reentrant>>
historyVars == <<releaseCount, refundCount, resolvedPct>>
vars == <<projectCounter, disputeCounter, platformFeePercent, projects,
          projectMilestones, disputes, isAdmin, adminList, userRatings,
          userRatingCount, paused, locked,
          balance, now, block, stack, reentrant, sent, releaseCount, refundCount,
          resolvedPct>>

\* --------------------------------------------------------------- helpers
NoVote == -1

RECURSIVE SumSeq(_)
SumSeq(s) == IF s = <<>> THEN 0 ELSE Head(s) + SumSeq(Tail(s))

EmptyProject ==
    [client |-> ZeroAddress, freelancer |-> ZeroAddress, totalAmount |-> 0,
     status |-> "CREATED", fundsDeposited |-> FALSE]

EmptyDispute ==
    [projectId |-> 0, milestoneId |-> 0, initiator |-> ZeroAddress,
     isResolved |-> FALSE, hasVoted |-> [a \in Addr |-> FALSE],
     votes |-> [a \in Addr |-> 0], voteCount |-> 0]

\* Milestone ids are 0-based in the contract; a TLA+ sequence is 1-based.
Milestone(p, m) == projectMilestones[p][m + 1]

\* ------------------------------------------------------------- modifiers
OnlyOwner(caller) == caller = Owner

OnlyAdmin(caller) == isAdmin[caller] \/ caller = Owner

OnlyClient(caller, p) == caller = projects[p].client

OnlyFreelancer(caller, p) == caller = projects[p].freelancer

OnlyParticipant(caller, p) ==
    caller = projects[p].client \/ caller = projects[p].freelancer

ProjectExists(p) == p < projectCounter

WhenNotPaused == ~paused

\* A guard that never looks at the lock.
NonReentrantOff == TRUE

NonReentrant == ~locked

\* A call is a transaction of its own, or is made by the recipient of a
\* transfer in flight.
CallAllowed == stack = <<>> \/ reentrant

\* The transfers of the transaction this call belongs to.
SentBase == IF stack = <<>> THEN <<>> ELSE sent

\* ------------------------------------------------------------------ Init
InitWith(re) ==
    /\ projectCounter = 0
    /\ disputeCounter = 0
    /\ platformFeePercent = InitialFeePercent
    /\ projects = [p \in ProjectIds |-> EmptyProject]
    /\ projectMilestones = [p \in ProjectIds |-> <<>>]
    /\ disputes = [d \in DisputeIds |-> EmptyDispute]
    /\ isAdmin = [a \in AllAddr |-> a = Owner]
    /\ adminList = <<Owner>>
    /\ userRatings = [a \in AllAddr |-> 0]
    /\ userRatingCount = [a \in AllAddr |-> 0]
    /\ paused = FALSE
    /\ locked = FALSE
    /\ balance = 0
    /\ block = 1
    /\ now = 0
    /\ stack = <<>>
    /\ reentrant = re
    /\ sent = <<>>
    /\ releaseCount = [pm \in ProjectIds \X MilestoneIds |-> 0]
    /\ refundCount = [p \in ProjectIds |-> 0]
    /\ resolvedPct = [d \in DisputeIds |-> NoVote]

Init == InitWith(FALSE)

InitReentrant == InitWith(TRUE)

\* ------------------------------------------------------- value transfers
\* `frame` is a call that has reached its first transfer; `bal` is the
\* contract's balance at that point.
Enter(frame, bal) ==
    /\ Len(stack) < MaxDepth
    /\ Head(frame.queue).amount <= bal
    /\ balance' = bal - Head(frame.queue).amount
    /\ stack' = Append(stack, frame)
    /\ sent' = Append(SentBase, Head(frame.queue))

\* ------------------------------------------------------------ AdminRoster
\* An addAdmin that does not look at whether the address is a member.
AddAdminDuplicate(caller, a) ==
    /\ CallAllowed
    /\ OnlyOwner(caller)
    /\ a # ZeroAddress
    /\ isAdmin' = [isAdmin EXCEPT ![a] = TRUE]
    /\ adminList' = Append(adminList, a)
    /\ sent' = SentBase
    /\ UNCHANGED <<configVars, projectVars, disputeVars, envVars, ratingVars,
                   historyVars, locked, balance, stack>>

AddAdmin(caller, a) ==
    /\ CallAllowed
    /\ OnlyOwner(caller)
    /\ ~isAdmin[a]
    /\ a # ZeroAddress
    /\ isAdmin' = [isAdmin EXCEPT ![a] = TRUE]
    /\ adminList' = Append(adminList, a)
    /\ sent' = SentBase
    /\ UNCHANGED <<configVars, projectVars, disputeVars, envVars, ratingVars,
                   historyVars, locked, balance, stack>>

\* A removal that closes the gap by shifting the later elements down.
ShiftAndPop(list, a) ==
    IF \E i \in 1 .. Len(list) : list[i] = a
    THEN LET i == CHOOSE k \in 1 .. Len(list) :
                    /\ list[k] = a
                    /\ \A j \in 1 .. (k - 1) : list[j] # a
         IN SubSeq(list, 1, i - 1) \o SubSeq(list, i + 1, Len(list))
    ELSE list

\* The loop of removeAdmin: the first occurrence is overwritten by the last
\* element and the list is popped.
SwapAndPop(list, a) ==
    IF \E i \in 1 .. Len(list) : list[i] = a
    THEN LET i == CHOOSE k \in 1 .. Len(list) :
                    /\ list[k] = a
                    /\ \A j \in 1 .. (k - 1) : list[j] # a
             swapped == [list EXCEPT ![i] = list[Len(list)]]
         IN SubSeq(swapped, 1, Len(list) - 1)
    ELSE list

\* A removeAdmin that does not look at the size of the roster.
RemoveAdminAnySize(caller, a) ==
    /\ CallAllowed
    /\ OnlyOwner(caller)
    /\ isAdmin[a]
    /\ isAdmin' = [isAdmin EXCEPT ![a] = FALSE]
    /\ adminList' = SwapAndPop(adminList, a)
    /\ sent' = SentBase
    /\ UNCHANGED <<configVars, projectVars, disputeVars, envVars, ratingVars,
                   historyVars, locked, balance, stack>>

RemoveAdmin(caller, a) ==
    /\ CallAllowed
    /\ OnlyOwner(caller)
    /\ isAdmin[a]
    /\ Len(adminList) > 1
    /\ isAdmin' = [isAdmin EXCEPT ![a] = FALSE]
    /\ adminList' = SwapAndPop(adminList, a)
    /\ sent' = SentBase
    /\ UNCHANGED <<configVars, projectVars, disputeVars, envVars, ratingVars,
                   historyVars, locked, balance, stack>>

\* ------------------------------------------------------ AccessControlGuard
Pause(caller) ==
    /\ CallAllowed
    /\ OnlyOwner(caller)
    /\ ~paused
    /\ paused' = TRUE
    /\ sent' = SentBase
    /\ UNCHANGED <<platformFeePercent, rosterVars, projectVars, disputeVars,
                   envVars, ratingVars, historyVars, locked, balance, stack>>

Unpause(caller) ==
    /\ CallAllowed
    /\ OnlyOwner(caller)
    /\ paused
    /\ paused' = FALSE
    /\ sent' = SentBase
    /\ UNCHANGED <<platformFeePercent, rosterVars, projectVars, disputeVars,
                   envVars, ratingVars, historyVars, locked, balance, stack>>

\* A setPlatformFee without the upper bound.
SetPlatformFeeUnbounded(caller, feePercent) ==
    /\ CallAllowed
    /\ OnlyOwner(caller)
    /\ platformFeePercent' = feePercent
    /\ sent' = SentBase
    /\ UNCHANGED <<paused, rosterVars, projectVars, disputeVars, envVars,
                   ratingVars, historyVars, locked, balance, stack>>

SetPlatformFee(caller, feePercent) ==
    /\ CallAllowed
    /\ OnlyOwner(caller)
    /\ feePercent <= MaxFeePercent
    /\ platformFeePercent' = feePercent
    /\ sent' = SentBase
    /\ UNCHANGED <<paused, rosterVars, projectVars, disputeVars, envVars,
                   ratingVars, historyVars, locked, balance, stack>>

\* --------------------------------------------------------- ProjectRegistry
NewMilestone(amount, deadline) ==
    [amount |-> amount, deadline |-> deadline, status |-> "PENDING",
     deliverableHash |-> "", submittedAt |-> 0]

\* A createProject that keeps what is sent in excess of the total.
CreateProjectKeepsExcess(caller, nDescriptions, amounts, deadlines, value) ==
    /\ CallAllowed
    /\ WhenNotPaused
    /\ nDescriptions > 0
    /\ nDescriptions = Len(amounts)
    /\ Len(amounts) = Len(deadlines)
    /\ \A i \in 1 .. Len(amounts) : amounts[i] > 0 /\ deadlines[i] > now
    /\ projectCounter < MaxProjects
    /\ LET totalAmount == SumSeq(amounts)
           projectId == projectCounter
       IN /\ value >= totalAmount
          /\ projectCounter' = projectCounter + 1
          /\ projects' = [projects EXCEPT ![projectId] =
                 [client |-> caller, freelancer |-> ZeroAddress,
                  totalAmount |-> totalAmount, status |-> "CREATED",
                  fundsDeposited |-> TRUE]]
          /\ projectMilestones' = [projectMilestones EXCEPT ![projectId] =
                 projectMilestones[projectId] \o
                 [i \in 1 .. nDescriptions |->
                     NewMilestone(amounts[i], deadlines[i])]]
          /\ balance' = balance + value
          /\ sent' = SentBase
          /\ UNCHANGED stack
    /\ UNCHANGED stack
    /\ UNCHANGED <<configVars, rosterVars, disputeVars, envVars, ratingVars,
                   historyVars, locked>>

\* A createProject that gives the id of a cancelled project to the new one.
CreateProjectRecyclesId(caller, nDescriptions, amounts, deadlines, value) ==
    /\ CallAllowed
    /\ WhenNotPaused
    /\ nDescriptions > 0
    /\ nDescriptions = Len(amounts)
    /\ Len(amounts) = Len(deadlines)
    /\ \A i \in 1 .. Len(amounts) : amounts[i] > 0 /\ deadlines[i] > now
    /\ projectCounter < MaxProjects
    /\ LET totalAmount == SumSeq(amounts)
           cancelled == {p \in ProjectIds : /\ p < projectCounter
                                            /\ projects[p].status = "CANCELLED"}
           projectId == IF cancelled = {} THEN projectCounter
                        ELSE CHOOSE p \in cancelled : TRUE
       IN /\ value >= totalAmount
          /\ projectCounter' = IF cancelled = {} THEN projectCounter + 1
                               ELSE projectCounter
          /\ projects' = [projects EXCEPT ![projectId] =
                 [client |-> caller, freelancer |-> ZeroAddress,
                  totalAmount |-> totalAmount, status |-> "CREATED",
                  fundsDeposited |-> TRUE]]
          /\ projectMilestones' = [projectMilestones EXCEPT ![projectId] =
                 projectMilestones[projectId] \o
                 [i \in 1 .. nDescriptions |->
                     NewMilestone(amounts[i], deadlines[i])]]
          /\ IF value > totalAmount
             THEN Enter([op |-> "createProject", pid |-> projectId, mid |-> 0,
                         did |-> 0, avg |-> 0,
                         queue |-> <<[to |-> caller,
                                      amount |-> value - totalAmount,
                                      kind |-> "excess", pid |-> projectId,
                                      mid |-> 0]>>],
                        balance + value)
             ELSE /\ balance' = balance + value
                  /\ sent' = SentBase
                  /\ UNCHANGED stack
    /\ UNCHANGED <<configVars, rosterVars, disputeVars, envVars, ratingVars,
                   historyVars, locked>>

CreateProject(caller, nDescriptions, amounts, deadlines, value) ==
    /\ CallAllowed
    /\ WhenNotPaused
    /\ nDescriptions > 0
    /\ nDescriptions = Len(amounts)
    /\ Len(amounts) = Len(deadlines)
    /\ \A i \in 1 .. Len(amounts) : amounts[i] > 0 /\ deadlines[i] > now
    /\ projectCounter < MaxProjects
    /\ LET totalAmount == SumSeq(amounts)
           projectId == projectCounter
       IN /\ value >= totalAmount
          /\ projectCounter' = projectCounter + 1
          /\ projects' = [projects EXCEPT ![projectId] =
                 [client |-> caller, freelancer |-> ZeroAddress,
                  totalAmount |-> totalAmount, status |-> "CREATED",
                  fundsDeposited |-> TRUE]]
          /\ projectMilestones' = [projectMilestones EXCEPT ![projectId] =
                 projectMilestones[projectId] \o
                 [i \in 1 .. nDescriptions |->
                     NewMilestone(amounts[i], deadlines[i])]]
          /\ IF value > totalAmount
             THEN Enter([op |-> "createProject", pid |-> projectId, mid |-> 0,
                         did |-> 0, avg |-> 0,
                         queue |-> <<[to |-> caller,
                                      amount |-> value - totalAmount,
                                      kind |-> "excess", pid |-> projectId,
                                      mid |-> 0]>>],
                        balance + value)
             ELSE /\ balance' = balance + value
                  /\ sent' = SentBase
                  /\ UNCHANGED stack
    /\ UNCHANGED <<configVars, rosterVars, disputeVars, envVars, ratingVars,
                   historyVars, locked>>

\* An acceptProject that does not look at the project's status.
AcceptProjectAnyStatus(caller, p) ==
    /\ CallAllowed
    /\ ProjectExists(p)
    /\ WhenNotPaused
    /\ projects[p].freelancer = ZeroAddress
    /\ caller # projects[p].client
    /\ projects' = [projects EXCEPT ![p].freelancer = caller,
                                    ![p].status = "ACTIVE"]
    /\ sent' = SentBase
    /\ UNCHANGED <<projectCounter, projectMilestones, configVars, rosterVars,
                   disputeVars, envVars, ratingVars, historyVars, locked,
                   balance, stack>>

\* An acceptProject that lets the client accept its own project.
AcceptProjectAnyCaller(caller, p) ==
    /\ CallAllowed
    /\ ProjectExists(p)
    /\ WhenNotPaused
    /\ projects[p].status = "CREATED"
    /\ projects[p].freelancer = ZeroAddress
    /\ projects' = [projects EXCEPT ![p].freelancer = caller,
                                    ![p].status = "ACTIVE"]
    /\ sent' = SentBase
    /\ UNCHANGED <<projectCounter, projectMilestones, configVars, rosterVars,
                   disputeVars, envVars, ratingVars, historyVars, locked,
                   balance, stack>>

AcceptProject(caller, p) ==
    /\ CallAllowed
    /\ ProjectExists(p)
    /\ WhenNotPaused
    /\ projects[p].status = "CREATED"
    /\ projects[p].freelancer = ZeroAddress
    /\ caller # projects[p].client
    /\ projects' = [projects EXCEPT ![p].freelancer = caller,
                                    ![p].status = "ACTIVE"]
    /\ sent' = SentBase
    /\ UNCHANGED <<projectCounter, projectMilestones, configVars, rosterVars,
                   disputeVars, envVars, ratingVars, historyVars, locked,
                   balance, stack>>

\* A submitMilestone that does not look at the milestone's status.
SubmitMilestoneAnyStatus(caller, p, m, deliverableHash) ==
    /\ CallAllowed
    /\ ProjectExists(p)
    /\ OnlyFreelancer(caller, p)
    /\ WhenNotPaused
    /\ projects[p].status = "ACTIVE"
    /\ m < Len(projectMilestones[p])
    /\ deliverableHash # ""
    /\ projectMilestones' = [projectMilestones EXCEPT
           ![p][m + 1].status = "SUBMITTED",
           ![p][m + 1].deliverableHash = deliverableHash,
           ![p][m + 1].submittedAt = now]
    /\ sent' = SentBase
    /\ UNCHANGED <<projectCounter, projects, configVars, rosterVars,
                   disputeVars, envVars, ratingVars, historyVars, locked,
                   balance, stack>>

\* A submitMilestone that accepts an empty deliverable reference.
SubmitMilestoneEmptyHash(caller, p, m, deliverableHash) ==
    /\ CallAllowed
    /\ ProjectExists(p)
    /\ OnlyFreelancer(caller, p)
    /\ WhenNotPaused
    /\ projects[p].status = "ACTIVE"
    /\ m < Len(projectMilestones[p])
    /\ Milestone(p, m).status = "PENDING"
    /\ projectMilestones' = [projectMilestones EXCEPT
           ![p][m + 1].status = "SUBMITTED",
           ![p][m + 1].deliverableHash = deliverableHash,
           ![p][m + 1].submittedAt = now]
    /\ sent' = SentBase
    /\ UNCHANGED <<projectCounter, projects, configVars, rosterVars,
                   disputeVars, envVars, ratingVars, historyVars, locked,
                   balance, stack>>

SubmitMilestone(caller, p, m, deliverableHash) ==
    /\ CallAllowed
    /\ ProjectExists(p)
    /\ OnlyFreelancer(caller, p)
    /\ WhenNotPaused
    /\ projects[p].status = "ACTIVE"
    /\ m < Len(projectMilestones[p])
    /\ Milestone(p, m).status = "PENDING"
    /\ deliverableHash # ""
    /\ projectMilestones' = [projectMilestones EXCEPT
           ![p][m + 1].status = "SUBMITTED",
           ![p][m + 1].deliverableHash = deliverableHash,
           ![p][m + 1].submittedAt = now]
    /\ sent' = SentBase
    /\ UNCHANGED <<projectCounter, projects, configVars, rosterVars,
                   disputeVars, envVars, ratingVars, historyVars, locked,
                   balance, stack>>

\* ------------------------------------------------------------ EscrowLedger
\* A fee rounded up instead of down.
PlatformFeeRoundedUp(amount, feePercent) ==
    (amount * feePercent + 99) \div 100

PlatformFee(amount, feePercent) == (amount * feePercent) \div 100

\* A release that forgets to mark the milestone APPROVED.
ReleaseWithoutMark(p, m) ==
    LET milestone == Milestone(p, m)
        platformFee == PlatformFee(milestone.amount, platformFeePercent)
        freelancerAmount == milestone.amount - platformFee
    IN /\ projectMilestones' = projectMilestones
       /\ releaseCount' = [releaseCount EXCEPT ![<<p, m>>] = @ + 1]
       /\ Enter([op |-> "release", pid |-> p, mid |-> m, did |-> 0, avg |-> 0,
                 queue |-> <<[to |-> projects[p].freelancer,
                              amount |-> freelancerAmount, kind |-> "payee",
                              pid |-> p, mid |-> m],
                             [to |-> Owner, amount |-> platformFee,
                              kind |-> "fee", pid |-> p, mid |-> m]>>],
                balance)

\* A release that sends the whole amount to the freelancer and no fee.
ReleaseWithoutFee(p, m) ==
    /\ projectMilestones' =
           [projectMilestones EXCEPT ![p][m + 1].status = "APPROVED"]
    /\ releaseCount' = [releaseCount EXCEPT ![<<p, m>>] = @ + 1]
    /\ Enter([op |-> "release", pid |-> p, mid |-> m, did |-> 0, avg |-> 0,
              queue |-> <<[to |-> projects[p].freelancer,
                           amount |-> Milestone(p, m).amount,
                           kind |-> "payee", pid |-> p, mid |-> m]>>],
             balance)

\* _releaseMilestonePayment up to its first transfer: the milestone is marked
\* APPROVED, the split is computed, and the freelancer's share is sent.
ReleaseMilestonePayment(p, m) ==
    LET milestone == Milestone(p, m)
        platformFee == PlatformFee(milestone.amount, platformFeePercent)
        freelancerAmount == milestone.amount - platformFee
    IN /\ projectMilestones' =
              [projectMilestones EXCEPT ![p][m + 1].status = "APPROVED"]
       /\ releaseCount' = [releaseCount EXCEPT ![<<p, m>>] = @ + 1]
       /\ Enter([op |-> "release", pid |-> p, mid |-> m, did |-> 0, avg |-> 0,
                 queue |-> <<[to |-> projects[p].freelancer,
                              amount |-> freelancerAmount, kind |-> "payee",
                              pid |-> p, mid |-> m],
                             [to |-> Owner, amount |-> platformFee,
                              kind |-> "fee", pid |-> p, mid |-> m]>>],
                balance)

\* An approveMilestone that does not look at the project's status.
ApproveMilestoneAnyProject(caller, p, m) ==
    /\ CallAllowed
    /\ ProjectExists(p)
    /\ OnlyClient(caller, p)
    /\ NonReentrant
    /\ WhenNotPaused
    /\ m < Len(projectMilestones[p])
    /\ Milestone(p, m).status = "SUBMITTED"
    /\ locked' = TRUE
    /\ ReleaseMilestonePayment(p, m)
    /\ UNCHANGED <<projectCounter, projects, configVars, rosterVars,
                   disputeVars, envVars, ratingVars, refundCount, resolvedPct>>

ApproveMilestone(caller, p, m) ==
    /\ CallAllowed
    /\ ProjectExists(p)
    /\ OnlyClient(caller, p)
    /\ NonReentrant
    /\ WhenNotPaused
    /\ projects[p].status = "ACTIVE"
    /\ m < Len(projectMilestones[p])
    /\ Milestone(p, m).status = "SUBMITTED"
    /\ locked' = TRUE
    /\ ReleaseMilestonePayment(p, m)
    /\ UNCHANGED <<projectCounter, projects, configVars, rosterVars,
                   disputeVars, envVars, ratingVars, refundCount, resolvedPct>>

\* ------------------------------------------------------------ TimeoutPolicy
\* An eligibility that begins only after the instant the timeout ends.
AutoApproveEligibleStrict(milestone) ==
    now > milestone.submittedAt + AUTO_APPROVE_TIMEOUT

\* An eligibility that waits for the milestone's deadline.
AutoApproveAfterDeadline(milestone) ==
    now >= milestone.deadline

AutoApproveEligible(milestone) ==
    now >= milestone.submittedAt + AUTO_APPROVE_TIMEOUT

\* A dispute window as long as the auto-approval timeout.
WithinAutoApproveWindow(milestone) ==
    now <= milestone.submittedAt + AUTO_APPROVE_TIMEOUT

WithinDisputeWindow(milestone) ==
    now <= milestone.submittedAt + DISPUTE_TIMEOUT

\* An auto-approval that forgets to mark the milestone APPROVED.
AutoApproveWithoutMark(caller, p, m) ==
    /\ CallAllowed
    /\ ProjectExists(p)
    /\ NonReentrant
    /\ WhenNotPaused
    /\ projects[p].status = "ACTIVE"
    /\ m < Len(projectMilestones[p])
    /\ Milestone(p, m).status = "SUBMITTED"
    /\ AutoApproveEligible(Milestone(p, m))
    /\ locked' = TRUE
    /\ ReleaseWithoutMark(p, m)
    /\ UNCHANGED <<projectCounter, projects, configVars, rosterVars,
                   disputeVars, envVars, ratingVars, refundCount, resolvedPct>>

AutoApproveMilestone(caller, p, m) ==
    /\ CallAllowed
    /\ ProjectExists(p)
    /\ NonReentrant
    /\ WhenNotPaused
    /\ projects[p].status = "ACTIVE"
    /\ m < Len(projectMilestones[p])
    /\ Milestone(p, m).status = "SUBMITTED"
    /\ AutoApproveEligible(Milestone(p, m))
    /\ locked' = TRUE
    /\ ReleaseMilestonePayment(p, m)
    /\ UNCHANGED <<projectCounter, projects, configVars, rosterVars,
                   disputeVars, envVars, ratingVars, refundCount, resolvedPct>>

canAutoApprove(p, m) ==
    IF p >= projectCounter THEN FALSE
    ELSE IF m >= Len(projectMilestones[p]) THEN FALSE
    ELSE /\ Milestone(p, m).status = "SUBMITTED"
         /\ now >= Milestone(p, m).submittedAt + AUTO_APPROVE_TIMEOUT

\* ------------------------------------------------------ DisputeCoordinator
\* A raiseDispute that does not look at the milestone's status.
RaiseDisputeAnyStatus(caller, p, m) ==
    /\ CallAllowed
    /\ ProjectExists(p)
    /\ OnlyParticipant(caller, p)
    /\ WhenNotPaused
    /\ projects[p].status = "ACTIVE"
    /\ m < Len(projectMilestones[p])
    /\ WithinDisputeWindow(Milestone(p, m))
    /\ disputeCounter < MaxDisputes
    /\ disputeCounter' = disputeCounter + 1
    /\ disputes' = [disputes EXCEPT
           ![disputeCounter].projectId = p,
           ![disputeCounter].milestoneId = m,
           ![disputeCounter].initiator = caller,
           ![disputeCounter].isResolved = FALSE,
           ![disputeCounter].voteCount = 0]
    /\ projects' = [projects EXCEPT ![p].status = "DISPUTED"]
    /\ projectMilestones' =
           [projectMilestones EXCEPT ![p][m + 1].status = "DISPUTED"]
    /\ sent' = SentBase
    /\ UNCHANGED <<projectCounter, configVars, rosterVars, envVars, ratingVars,
                   historyVars, locked, balance, stack>>

\* A raiseDispute that does not look at the project's status.
RaiseDisputeAnyProject(caller, p, m) ==
    /\ CallAllowed
    /\ ProjectExists(p)
    /\ OnlyParticipant(caller, p)
    /\ WhenNotPaused
    /\ m < Len(projectMilestones[p])
    /\ Milestone(p, m).status = "SUBMITTED"
    /\ WithinDisputeWindow(Milestone(p, m))
    /\ disputeCounter < MaxDisputes
    /\ disputeCounter' = disputeCounter + 1
    /\ disputes' = [disputes EXCEPT
           ![disputeCounter].projectId = p,
           ![disputeCounter].milestoneId = m,
           ![disputeCounter].initiator = caller,
           ![disputeCounter].isResolved = FALSE,
           ![disputeCounter].voteCount = 0]
    /\ projects' = [projects EXCEPT ![p].status = "DISPUTED"]
    /\ projectMilestones' =
           [projectMilestones EXCEPT ![p][m + 1].status = "DISPUTED"]
    /\ sent' = SentBase
    /\ UNCHANGED <<projectCounter, configVars, rosterVars, envVars, ratingVars,
                   historyVars, locked, balance, stack>>

RaiseDispute(caller, p, m) ==
    /\ CallAllowed
    /\ ProjectExists(p)
    /\ OnlyParticipant(caller, p)
    /\ WhenNotPaused
    /\ projects[p].status = "ACTIVE"
    /\ m < Len(projectMilestones[p])
    /\ Milestone(p, m).status = "SUBMITTED"
    /\ WithinDisputeWindow(Milestone(p, m))
    /\ disputeCounter < MaxDisputes
    /\ disputeCounter' = disputeCounter + 1
    /\ disputes' = [disputes EXCEPT
           ![disputeCounter].projectId = p,
           ![disputeCounter].milestoneId = m,
           ![disputeCounter].initiator = caller,
           ![disputeCounter].isResolved = FALSE,
           ![disputeCounter].voteCount = 0]
    /\ projects' = [projects EXCEPT ![p].status = "DISPUTED"]
    /\ projectMilestones' =
           [projectMilestones EXCEPT ![p][m + 1].status = "DISPUTED"]
    /\ sent' = SentBase
    /\ UNCHANGED <<projectCounter, configVars, rosterVars, envVars, ratingVars,
                   historyVars, locked, balance, stack>>

\* The loop of _executeDisputeResolution over adminList[1 .. n]:
\* <<totalPercentage, validVotes>>.
RECURSIVE TallyVotes(_, _)
TallyVotes(dispute, n) ==
    IF n = 0 THEN <<0, 0>>
    ELSE LET rest == TallyVotes(dispute, n - 1)
             admin == adminList[n]
         IN IF dispute.hasVoted[admin]
            THEN <<rest[1] + dispute.votes[admin], rest[2] + 1>>
            ELSE rest

\* A resolution that pays the client only when the freelancer gets nothing.
ResolutionTransfersElseIf(p, m, freelancerAmount, clientAmount) ==
    IF freelancerAmount > 0
    THEN <<[to |-> projects[p].freelancer, amount |-> freelancerAmount,
            kind |-> "payee", pid |-> p, mid |-> m]>>
    ELSE <<[to |-> projects[p].client, amount |-> clientAmount,
            kind |-> "payer", pid |-> p, mid |-> m]>>

\* A resolution that sends both shares, a share of zero included.
ResolutionTransfersUnconditional(p, m, freelancerAmount, clientAmount) ==
    <<[to |-> projects[p].freelancer, amount |-> freelancerAmount,
       kind |-> "payee", pid |-> p, mid |-> m],
      [to |-> projects[p].client, amount |-> clientAmount,
       kind |-> "payer", pid |-> p, mid |-> m]>>

\* The transfers of a resolution: each non-zero share, the freelancer's first.
ResolutionTransfers(p, m, freelancerAmount, clientAmount) ==
    (IF freelancerAmount > 0
     THEN <<[to |-> projects[p].freelancer, amount |-> freelancerAmount,
             kind |-> "payee", pid |-> p, mid |-> m]>>
     ELSE <<>>)
    \o
    (IF clientAmount > 0
     THEN <<[to |-> projects[p].client, amount |-> clientAmount,
             kind |-> "payer", pid |-> p, mid |-> m]>>
     ELSE <<>>)

\* _executeDisputeResolution up to its first transfer; `dispute` is the
\* record with the vote of the calling voteOnDispute already in it.  The
\* division by validVotes panics (and reverts the vote) when it is zero.
ExecuteDisputeResolution(d, dispute) ==
    LET tally == TallyVotes(dispute, Len(adminList))
        totalPercentage == tally[1]
        validVotes == tally[2]
        avgPercentage == totalPercentage \div validVotes
        p == dispute.projectId
        m == dispute.milestoneId
        freelancerAmount == (Milestone(p, m).amount * avgPercentage) \div 100
        clientAmount == Milestone(p, m).amount - freelancerAmount
    IN /\ NonReentrant
       /\ ~dispute.isResolved
       /\ validVotes # 0
       /\ locked' = TRUE
       /\ releaseCount' = [releaseCount EXCEPT ![<<p, m>>] = @ + 1]
       /\ Enter([op |-> "resolve", pid |-> p, mid |-> m, did |-> d,
                 avg |-> avgPercentage,
                 queue |-> ResolutionTransfers(p, m, freelancerAmount,
                                               clientAmount)],
                balance)

\* A vote that tests the quorum against the count before it.
VoteOnDisputeStaleCount(caller, d, percentageToFreelancer) ==
    /\ CallAllowed
    /\ OnlyAdmin(caller)
    /\ WhenNotPaused
    /\ d < disputeCounter
    /\ ~disputes[d].isResolved
    /\ percentageToFreelancer <= 100
    /\ ~disputes[d].hasVoted[caller]
    /\ LET voted == [disputes[d] EXCEPT
                        !.hasVoted[caller] = TRUE,
                        !.votes[caller] = percentageToFreelancer,
                        !.voteCount = @ + 1]
       IN /\ disputes' = [disputes EXCEPT ![d] = voted]
          /\ IF disputes[d].voteCount >= REQUIRED_ADMIN_VOTES
             THEN ExecuteDisputeResolution(d, voted)
             ELSE /\ sent' = SentBase
                  /\ UNCHANGED <<locked, balance, stack, releaseCount>>
    /\ UNCHANGED <<disputeCounter, projectVars, configVars, rosterVars,
                   envVars, ratingVars, refundCount, resolvedPct>>

\* A vote that does not look at whether the caller has voted already.
VoteOnDisputeTwice(caller, d, percentageToFreelancer) ==
    /\ CallAllowed
    /\ OnlyAdmin(caller)
    /\ WhenNotPaused
    /\ d < disputeCounter
    /\ ~disputes[d].isResolved
    /\ percentageToFreelancer <= 100
    /\ LET voted == [disputes[d] EXCEPT
                        !.hasVoted[caller] = TRUE,
                        !.votes[caller] = percentageToFreelancer,
                        !.voteCount = @ + 1]
       IN /\ disputes' = [disputes EXCEPT ![d] = voted]
          /\ IF voted.voteCount >= REQUIRED_ADMIN_VOTES
             THEN ExecuteDisputeResolution(d, voted)
             ELSE /\ sent' = SentBase
                  /\ UNCHANGED <<locked, balance, stack, releaseCount>>
    /\ UNCHANGED <<disputeCounter, projectVars, configVars, rosterVars,
                   envVars, ratingVars, refundCount, resolvedPct>>

VoteOnDispute(caller, d, percentageToFreelancer) ==
    /\ CallAllowed
    /\ OnlyAdmin(caller)
    /\ WhenNotPaused
    /\ d < disputeCounter
    /\ ~disputes[d].isResolved
    /\ percentageToFreelancer <= 100
    /\ ~disputes[d].hasVoted[caller]
    /\ LET voted == [disputes[d] EXCEPT
                        !.hasVoted[caller] = TRUE,
                        !.votes[caller] = percentageToFreelancer,
                        !.voteCount = @ + 1]
       IN /\ disputes' = [disputes EXCEPT ![d] = voted]
          /\ IF voted.voteCount >= REQUIRED_ADMIN_VOTES
             THEN ExecuteDisputeResolution(d, voted)
             ELSE /\ sent' = SentBase
                  /\ UNCHANGED <<locked, balance, stack, releaseCount>>
    /\ UNCHANGED <<disputeCounter, projectVars, configVars, rosterVars,
                   envVars, ratingVars, refundCount, resolvedPct>>

\* A cancelProject that looks neither at the status nor at the freelancer.
CancelProjectUnchecked(caller, p) ==
    /\ CallAllowed
    /\ ProjectExists(p)
    /\ OnlyClient(caller, p)
    /\ NonReentrant
    /\ WhenNotPaused
    /\ locked' = TRUE
    /\ projects' = [projects EXCEPT ![p].status = "CANCELLED"]
    /\ refundCount' = [refundCount EXCEPT ![p] = @ + 1]
    /\ Enter([op |-> "cancelProject", pid |-> p, mid |-> 0, did |-> 0,
              avg |-> 0,
              queue |-> <<[to |-> projects[p].client,
                           amount |-> projects[p].totalAmount,
                           kind |-> "refund", pid |-> p, mid |-> 0]>>],
             balance)
    /\ UNCHANGED <<projectCounter, projectMilestones, configVars, rosterVars,
                   disputeVars, envVars, ratingVars, releaseCount,
                   resolvedPct>>

CancelProject(caller, p) ==
    /\ CallAllowed
    /\ ProjectExists(p)
    /\ OnlyClient(caller, p)
    /\ NonReentrant
    /\ WhenNotPaused
    /\ projects[p].status = "CREATED"
    /\ projects[p].freelancer = ZeroAddress
    /\ locked' = TRUE
    /\ projects' = [projects EXCEPT ![p].status = "CANCELLED"]
    /\ refundCount' = [refundCount EXCEPT ![p] = @ + 1]
    /\ Enter([op |-> "cancelProject", pid |-> p, mid |-> 0, did |-> 0,
              avg |-> 0,
              queue |-> <<[to |-> projects[p].client,
                           amount |-> projects[p].totalAmount,
                           kind |-> "refund", pid |-> p, mid |-> 0]>>],
             balance)
    /\ UNCHANGED <<projectCounter, projectMilestones, configVars, rosterVars,
                   disputeVars, envVars, ratingVars, releaseCount,
                   resolvedPct>>

\* ------------------------------------------------------------- ratings
RateUser(caller, user, rating) ==
    /\ CallAllowed
    /\ WhenNotPaused
    /\ rating >= 1
    /\ rating <= 5
    /\ userRatingCount[user] < MaxRatings
    /\ userRatings' = [userRatings EXCEPT ![user] = @ + rating]
    /\ userRatingCount' = [userRatingCount EXCEPT ![user] = @ + 1]
    /\ sent' = SentBase
    /\ UNCHANGED <<configVars, rosterVars, projectVars, disputeVars, envVars,
                   historyVars, locked, balance, stack>>

getUserRating(user) ==
    IF userRatingCount[user] = 0 THEN 0
    ELSE userRatings[user] \div userRatingCount[user]

\* A collection that puts each voter found before those found earlier.
RECURSIVE CollectVotesNewestFirst(_, _)
CollectVotesNewestFirst(dispute, n) ==
    IF n = 0 THEN <<>>
    ELSE LET rest == CollectVotesNewestFirst(dispute, n - 1)
             admin == adminList[n]
         IN IF dispute.hasVoted[admin]
            THEN <<(<<admin, dispute.votes[admin]>>)>> \o rest
            ELSE rest

\* The first loop of getDisputeVotes over adminList[1 .. n]: the pairs
\* <<tempVoters[i], tempPercentages[i]>> for i below count.
RECURSIVE CollectVotes(_, _)
CollectVotes(dispute, n) ==
    IF n = 0 THEN <<>>
    ELSE LET rest == CollectVotes(dispute, n - 1)
             admin == adminList[n]
         IN IF dispute.hasVoted[admin]
            THEN Append(rest, <<admin, dispute.votes[admin]>>)
            ELSE rest

\* getDisputeVotes(_disputeId); the call reverts for an id that was never
\* assigned.
getDisputeVotes(d) ==
    IF d >= disputeCounter THEN "Dispute does not exist"
    ELSE LET dispute == disputes[d]
             temp == CollectVotes(dispute, Len(adminList))
             count == Len(temp)
         IN [voteCount |-> dispute.voteCount,
             isResolved |-> dispute.isResolved,
             voters |-> [i \in 1 .. count |-> temp[i][1]],
             percentages |-> [i \in 1 .. count |-> temp[i][2]]]

\* A completion test that is satisfied by one APPROVED milestone.
anyMilestoneApproved(p) ==
    \E i \in 1 .. Len(projectMilestones[p]) :
        projectMilestones[p][i].status = "APPROVED"

allMilestonesApproved(p) ==
    \A i \in 1 .. Len(projectMilestones[p]) :
        projectMilestones[p][i].status = "APPROVED"

\* ------------------------------------------- the return of a transfer
Top == stack[Len(stack)]

Pop == SubSeq(stack, 1, Len(stack) - 1)

\* The transfer in flight returns and the call issues its next one.
NextTransfer ==
    /\ stack # <<>>
    /\ Len(Top.queue) > 1
    /\ Top.queue[2].amount <= balance
    /\ balance' = balance - Top.queue[2].amount
    /\ stack' = [stack EXCEPT ![Len(stack)].queue = Tail(@)]
    /\ sent' = Append(sent, Top.queue[2])
    /\ UNCHANGED <<projectVars, disputeVars, configVars, rosterVars, envVars,
                   ratingVars, historyVars, locked>>

\* The last transfer of _releaseMilestonePayment returns: lines 919-924, then
\* the nonReentrant modifier of the calling function releases the lock.
ReleaseReturn ==
    /\ stack # <<>>
    /\ Len(Top.queue) = 1
    /\ Top.op = "release"
    /\ projects' = IF allMilestonesApproved(Top.pid)
                   THEN [projects EXCEPT ![Top.pid].status = "COMPLETED"]
                   ELSE projects
    /\ locked' = FALSE
    /\ stack' = Pop
    /\ UNCHANGED <<projectCounter, projectMilestones, disputeVars, configVars,
                   rosterVars, envVars, ratingVars, historyVars, balance,
                   sent>>

\* A resolution that re-checks completion as a release does.
ResolveReturnRechecks ==
    /\ stack # <<>>
    /\ Len(Top.queue) = 1
    /\ Top.op = "resolve"
    /\ disputes' = [disputes EXCEPT ![Top.did].isResolved = TRUE]
    /\ projectMilestones' = [projectMilestones EXCEPT
           ![Top.pid][Top.mid + 1].status = "APPROVED"]
    /\ projects' =
           [projects EXCEPT ![Top.pid].status =
               IF \A i \in DOMAIN projectMilestones[Top.pid] :
                     \/ i = Top.mid + 1
                     \/ projectMilestones[Top.pid][i].status = "APPROVED"
               THEN "COMPLETED" ELSE "ACTIVE"]
    /\ resolvedPct' = [resolvedPct EXCEPT ![Top.did] = Top.avg]
    /\ locked' = FALSE
    /\ stack' = Pop
    /\ UNCHANGED <<projectCounter, disputeCounter, configVars, rosterVars,
                   envVars, ratingVars, releaseCount, refundCount, balance,
                   sent>>

\* The last transfer of _executeDisputeResolution returns: lines 1042-1046.
ResolveReturn ==
    /\ stack # <<>>
    /\ Len(Top.queue) = 1
    /\ Top.op = "resolve"
    /\ disputes' = [disputes EXCEPT ![Top.did].isResolved = TRUE]
    /\ projectMilestones' = [projectMilestones EXCEPT
           ![Top.pid][Top.mid + 1].status = "APPROVED"]
    /\ projects' = [projects EXCEPT ![Top.pid].status = "ACTIVE"]
    /\ resolvedPct' = [resolvedPct EXCEPT ![Top.did] = Top.avg]
    /\ locked' = FALSE
    /\ stack' = Pop
    /\ UNCHANGED <<projectCounter, disputeCounter, configVars, rosterVars,
                   envVars, ratingVars, releaseCount, refundCount, balance,
                   sent>>

\* The refund of cancelProject returns; nonReentrant releases the lock.
CancelReturn ==
    /\ stack # <<>>
    /\ Len(Top.queue) = 1
    /\ Top.op = "cancelProject"
    /\ locked' = FALSE
    /\ stack' = Pop
    /\ UNCHANGED <<projectVars, disputeVars, configVars, rosterVars, envVars,
                   ratingVars, historyVars, balance, sent>>

\* The refund of createProject's excess returns: lines 769-772.
CreateReturn ==
    /\ stack # <<>>
    /\ Len(Top.queue) = 1
    /\ Top.op = "createProject"
    /\ stack' = Pop
    /\ UNCHANGED <<projectVars, disputeVars, configVars, rosterVars, envVars,
                   ratingVars, historyVars, locked, balance, sent>>

\* ------------------------------------------------------------------ time
\* The next block is mined; `stamps` are the timestamps of the run's blocks.
Tick(stamps) ==
    /\ stack = <<>>
    /\ block < Len(stamps)
    /\ block' = block + 1
    /\ now' = stamps[block + 1]
    /\ sent' = <<>>
    /\ UNCHANGED <<projectVars, disputeVars, configVars, rosterVars,
                   ratingVars, historyVars, locked, balance, stack, reentrant>>

\* The calls of one environment: who calls, and with which arguments.
RosterCalls(in) ==
    \/ \E caller \in in.callers, a \in in.admins : AddAdmin(caller, a)
    \/ \E caller \in in.callers, a \in in.admins : RemoveAdmin(caller, a)

FeeCalls(in) ==
    \E caller \in in.callers, f \in in.fees : SetPlatformFee(caller, f)

PauseCalls(in) ==
    \/ \E caller \in in.callers : Pause(caller)
    \/ \E caller \in in.callers : Unpause(caller)

\* The environment creates at most in.projects projects.
Clients(in) == IF projectCounter < in.projects THEN in.clients ELSE {}

ProjectCalls(in) ==
    \/ \E caller \in Clients(in), n \in DescriptionCounts,
          amounts \in in.amounts, deadlines \in DeadlineLists,
          excess \in ExcessValues :
            CreateProject(caller, n, amounts, deadlines,
                          SumSeq(amounts) + excess)
    \/ \E caller \in in.callers, p \in ProjectIds : AcceptProject(caller, p)
    \/ \E caller \in in.callers, p \in ProjectIds, m \in MilestoneIds,
          h \in Hashes : SubmitMilestone(caller, p, m, h)
    \/ \E caller \in in.callers, p \in ProjectIds, m \in MilestoneIds :
            ApproveMilestone(caller, p, m)
    \/ \E caller \in in.callers, p \in ProjectIds, m \in MilestoneIds :
            AutoApproveMilestone(caller, p, m)
    \/ \E caller \in in.callers, p \in ProjectIds : CancelProject(caller, p)

DisputeCalls(in) ==
    \/ \E caller \in in.callers, p \in ProjectIds, m \in MilestoneIds :
            RaiseDispute(caller, p, m)
    \/ \E caller \in in.callers, d \in DisputeIds, pct \in in.percents :
            VoteOnDispute(caller, d, pct)

Returns ==
    \/ NextTransfer
    \/ ReleaseReturn
    \/ ResolveReturn
    \/ CancelReturn
    \/ CreateReturn

\* The payment lifecycle of one project against the clock, with recipients
\* that do not call back.
LifecycleInputs ==
    [projects |-> 1, callers |-> Addr, clients |-> Addr,
     admins |-> {ZeroAddress, 2}, fees |-> {10, 11}, percents |-> {45, 101},
     amounts |-> {<<>>, <<0>>, <<175>>, <<2, 175>>}]

Next ==
    \/ RosterCalls(LifecycleInputs)
    \/ FeeCalls(LifecycleInputs)
    \/ ProjectCalls(LifecycleInputs)
    \/ DisputeCalls(LifecycleInputs)
    \/ PauseCalls(LifecycleInputs)
    \/ Returns
    \/ Tick(<<0, 3 * DAY, 7 * DAY>>)

Spec == Init /\ [][Next]_vars

\* Recipients that call back into the contract while a transfer is in flight.
ReentrantInputs ==
    [projects |-> 1, callers |-> Addr, clients |-> {2},
     admins |-> {ZeroAddress, 2, 3},
     percents |-> {45, 101}, amounts |-> {<<0>>, <<2, 175>>}]

NextReentrant ==
    \/ RosterCalls(ReentrantInputs)
    \/ ProjectCalls(ReentrantInputs)
    \/ DisputeCalls(ReentrantInputs)
    \/ Returns
    \/ Tick(<<0, 7 * DAY>>)

SpecReentrant == InitReentrant /\ [][NextReentrant]_vars

\* Disputes under a changing roster: every address may become an admin.
DisputeInputs ==
    [projects |-> 1, callers |-> Addr, clients |-> {2}, admins |-> AllAddr,
     percents |-> {45, 100, 101}, amounts |-> {<<0>>, <<175>>}]

NextDispute ==
    \/ RosterCalls(DisputeInputs)
    \/ ProjectCalls(DisputeInputs)
    \/ DisputeCalls(DisputeInputs)
    \/ Returns
    \/ Tick(<<0, 7 * DAY>>)

SpecDispute == Init /\ [][NextDispute]_vars

\* Two projects side by side, each of one milestone.
PortfolioInputs ==
    [projects |-> 2, callers |-> Addr, clients |-> {2},
     admins |-> {ZeroAddress, 2}, percents |-> {45, 101},
     amounts |-> {<<0>>, <<2>>, <<175>>}]

NextPortfolio ==
    \/ RosterCalls(PortfolioInputs)
    \/ ProjectCalls(PortfolioInputs)
    \/ DisputeCalls(PortfolioInputs)
    \/ Returns
    \/ Tick(<<0, 7 * DAY>>)

SpecPortfolio == Init /\ [][NextPortfolio]_vars

\* The pause switch against every mutating function, rateUser included.
PauseInputs ==
    [projects |-> 1, callers |-> Addr, clients |-> {2},
     admins |-> {ZeroAddress, 2}, fees |-> {10, 11}, percents |-> {45, 101},
     amounts |-> {<<0>>, <<175>>}, rated |-> {3}, ratings |-> {0, 1, 5, 6}]

RateCalls(in) ==
    \E caller \in in.callers, user \in in.rated, rating \in in.ratings :
        RateUser(caller, user, rating)

NextPause ==
    \/ PauseCalls(PauseInputs)
    \/ RosterCalls(PauseInputs)
    \/ FeeCalls(PauseInputs)
    \/ RateCalls(PauseInputs)
    \/ ProjectCalls(PauseInputs)
    \/ DisputeCalls(PauseInputs)
    \/ Returns
    \/ Tick(<<0, 7 * DAY>>)

SpecPause == Init /\ [][NextPause]_vars

\* Disputes and auto-approvals over time, where every transfer returns, every
\* block is followed by another until the last, every address that may vote
\* does so and every milestone that may be auto-approved is.  Nobody is
\* obliged to change the roster, to approve or to raise a dispute.
LiveInputs ==
    [projects |-> 1, callers |-> Addr, clients |-> {2}, admins |-> {2},
     percents |-> {45}, amounts |-> {<<175>>, <<2, 175>>}]

LiveStamps == <<0, 7 * DAY, 14 * DAY>>

NextLive ==
    \/ RosterCalls(LiveInputs)
    \/ ProjectCalls(LiveInputs)
    \/ DisputeCalls(LiveInputs)
    \/ Returns
    \/ Tick(LiveStamps)

Fairness ==
    /\ WF_vars(Returns)
    /\ WF_vars(Tick(LiveStamps))
    /\ \A c \in Addr, d \in DisputeIds :
          WF_vars(\E pct \in LiveInputs.percents : VoteOnDispute(c, d, pct))
    /\ \A p \in ProjectIds, m \in MilestoneIds :
          WF_vars(\E c \in Addr : AutoApproveMilestone(c, p, m))

SpecLive == Init /\ [][NextLive]_vars /\ Fairness

\* ================================================================ claims
HasMilestone(p, m) == p < projectCounter /\ m < Len(projectMilestones[p])

Frames == {stack[i] : i \in DOMAIN stack}

\* C1: once the funds of a milestone have been released (by approveMilestone,
\* autoApproveMilestone or a dispute resolution), no later step executes a
\* payout for that milestone again and no dispute is raised on it.
C1_ReleasedAtMostOnce ==
    [][\A p \in ProjectIds, m \in MilestoneIds :
          releaseCount[<<p, m>>] >= 1 =>
             /\ releaseCount'[<<p, m>>] = releaseCount[<<p, m>>]
             /\ \A d \in DisputeIds :
                   (disputeCounter <= d /\ d < disputeCounter') =>
                      ~(disputes'[d].projectId = p
                        /\ disputes'[d].milestoneId = m)]_vars

\* A released milestone in a project that is still ACTIVE, long enough after
\* its submission for the auto-approval window to have passed: only the
\* milestone's own status stands between a second approval and a payout.
C1_Witness ==
    \E p \in ProjectIds, m \in MilestoneIds :
        /\ HasMilestone(p, m)
        /\ stack = <<>>
        /\ releaseCount[<<p, m>>] = 1
        /\ Milestone(p, m).status = "APPROVED"
        /\ projects[p].status = "ACTIVE"
        /\ AutoApproveEligible(Milestone(p, m))
        /\ balance >= Milestone(p, m).amount

\* C2: with recipients that call back into the contract during a transfer,
\* no milestone is paid out twice and no project is refunded twice.
C2_NoDoublePayout ==
    /\ \A p \in ProjectIds, m \in MilestoneIds : releaseCount[<<p, m>>] <= 1
    /\ \A p \in ProjectIds : refundCount[p] <= 1

\* A resolution whose transfer is in flight while an admin that has not voted
\* yet is on the roster: the recipient can have that admin vote again.
C2_Witness ==
    /\ reentrant
    /\ \E f \in Frames, a \in Addr :
          /\ f.op = "resolve"
          /\ isAdmin[a]
          /\ ~disputes[f.did].hasVoted[a]
          /\ balance >= Milestone(f.pid, f.mid).amount

\* C3: while a transfer of an operation is in flight, every state change of
\* that operation has been committed.
C3_EffectsBeforeTransfers ==
    \A f \in Frames :
        /\ f.op = "release" =>
              /\ Milestone(f.pid, f.mid).status = "APPROVED"
              /\ allMilestonesApproved(f.pid) =>
                    projects[f.pid].status = "COMPLETED"
        /\ f.op = "resolve" =>
              /\ disputes[f.did].isResolved
              /\ Milestone(f.pid, f.mid).status = "APPROVED"
              /\ projects[f.pid].status = "ACTIVE"
        /\ f.op = "cancelProject" => projects[f.pid].status = "CANCELLED"
        /\ f.op = "createProject" => ProjectExists(f.pid)

\* C4: every operation with a transfer in flight holds the re-entrancy lock.
C4_LockHeldDuringTransfer == stack # <<>> => locked

\* The value escrowed for project p: the amounts of its milestones that are
\* not APPROVED, or nothing once the project is CANCELLED.
RECURSIVE Outstanding(_, _)
Outstanding(p, n) ==
    IF n = 0 THEN 0
    ELSE Outstanding(p, n - 1)
         + (IF projectMilestones[p][n].status # "APPROVED"
            THEN projectMilestones[p][n].amount ELSE 0)

RECURSIVE Escrowed(_)
Escrowed(n) ==
    IF n = 0 THEN 0
    ELSE Escrowed(n - 1)
         + (IF projects[n - 1].status # "CANCELLED"
            THEN Outstanding(n - 1, Len(projectMilestones[n - 1])) ELSE 0)

\* C5: between operations the contract holds exactly the amounts of the
\* milestones that are not APPROVED in projects that are not CANCELLED.
C5_BalanceIsEscrow == stack = <<>> => balance = Escrowed(projectCounter)

\* Value is still held for one milestone after another one was paid out
\* through a dispute resolution.
C5_Witness ==
    /\ stack = <<>>
    /\ balance > 0
    /\ \E d \in DisputeIds : d < disputeCounter /\ disputes[d].isResolved

\* C6: a release by approveMilestone or autoApproveMilestone sends
\* amount - fee to the freelancer and then fee to the owner, with
\* fee = floor(amount * platformFeePercent / 100).
C6_FeeSplit ==
    /\ \A f \in Frames :
          (f.op = "release" /\ Len(f.queue) = 2) =>
             f.queue[1].amount + f.queue[2].amount
                = Milestone(f.pid, f.mid).amount
    /\ \A i \in DOMAIN sent :
          sent[i].kind = "fee" =>
             LET amount == Milestone(sent[i].pid, sent[i].mid).amount
                 fee == (amount * platformFeePercent) \div 100
             IN /\ i > 1
                /\ sent[i].amount = fee
                /\ sent[i].to = Owner
                /\ sent[i - 1].kind = "payee"
                /\ sent[i - 1].to = projects[sent[i].pid].freelancer
                /\ sent[i - 1].amount = amount - fee
                /\ sent[i - 1].amount + sent[i].amount = amount

\* A completed release of 175 at a fee of 10 percent: the fee is 17, not 17.5.
C6_Witness ==
    /\ stack = <<>>
    /\ Len(sent) = 2
    /\ sent[2].kind = "fee"
    /\ sent[2].amount = 17
    /\ sent[1].amount = 158

MilestoneSteps ==
    {<<"PENDING", "SUBMITTED">>, <<"SUBMITTED", "APPROVED">>,
     <<"SUBMITTED", "DISPUTED">>, <<"DISPUTED", "APPROVED">>}

\* C7: a milestone starts PENDING and every change of its status is one of
\* PENDING->SUBMITTED, SUBMITTED->APPROVED, SUBMITTED->DISPUTED and
\* DISPUTED->APPROVED; APPROVED is never left, REJECTED never reached.
C7_MilestoneSteps ==
    [][\A p \in ProjectIds, m \in MilestoneIds :
          /\ m < Len(projectMilestones[p]) =>
                /\ m < Len(projectMilestones'[p])
                /\ \/ projectMilestones'[p][m + 1].status = Milestone(p, m).status
                   \/ <<Milestone(p, m).status,
                        projectMilestones'[p][m + 1].status>> \in MilestoneSteps
          /\ (m >= Len(projectMilestones[p]) /\ m < Len(projectMilestones'[p])) =>
                projectMilestones'[p][m + 1].status = "PENDING"]_vars

\* One milestone approved through a dispute and another one approved directly.
C7_Witness ==
    \E p \in ProjectIds, d \in DisputeIds :
        /\ d < disputeCounter
        /\ disputes[d].isResolved
        /\ disputes[d].projectId = p
        /\ allMilestonesApproved(p)
        /\ Len(projectMilestones[p]) = 2

ProjectSteps ==
    {<<"CREATED", "ACTIVE">>, <<"CREATED", "CANCELLED">>,
     <<"ACTIVE", "COMPLETED">>, <<"ACTIVE", "DISPUTED">>,
     <<"DISPUTED", "ACTIVE">>}

\* C8: every change of a project's status is one of CREATED->ACTIVE,
\* CREATED->CANCELLED, ACTIVE->COMPLETED, ACTIVE->DISPUTED and
\* DISPUTED->ACTIVE; COMPLETED and CANCELLED are never left.
C8_ProjectSteps ==
    [][\A p \in ProjectIds :
          /\ p < projectCounter =>
                \/ projects'[p].status = projects[p].status
                \/ <<projects[p].status, projects'[p].status>> \in ProjectSteps
          /\ (p >= projectCounter /\ p < projectCounter') =>
                projects'[p].status = "CREATED"]_vars

\* A project that was DISPUTED, went back to ACTIVE and is now COMPLETED.
C8_Witness ==
    \E p \in ProjectIds, d \in DisputeIds :
        /\ d < disputeCounter
        /\ disputes[d].isResolved
        /\ disputes[d].projectId = p
        /\ projects[p].status = "COMPLETED"

\* C9: the resolved flag of a dispute is set before any transfer of its
\* resolution is issued.
C9_ResolvedBeforeTransfer ==
    \A f \in Frames : f.op = "resolve" => disputes[f.did].isResolved

RECURSIVE SumVotes(_, _)
SumVotes(dispute, S) ==
    IF S = {} THEN 0
    ELSE LET a == CHOOSE x \in S : TRUE
         IN dispute.votes[a] + SumVotes(dispute, S \ {a})

Voters(dispute) == {a \in Addr : dispute.hasVoted[a]}

\* C10: the percentage a dispute is resolved with is the floor of the mean
\* of the percentages of all the admins that voted on it.
C10_MeanOfAllVotes ==
    \A d \in DisputeIds :
        resolvedPct[d] # NoVote =>
            resolvedPct[d] = SumVotes(disputes[d], Voters(disputes[d]))
                                \div Cardinality(Voters(disputes[d]))

\* The transfers a resolution in flight makes in all: those issued so far and
\* those still to come.
ResolutionSent(f) == sent \o Tail(f.queue)

\* C11: a dispute resolution sends floor(amount * avgPercentage / 100) to the
\* freelancer and the rest to the client, in that order; the two add up to the
\* milestone's amount, a share of zero is not sent, and no fee is sent.
C11_ResolutionSplit ==
    \A f \in Frames :
        f.op = "resolve" =>
            LET amount == Milestone(f.pid, f.mid).amount
                payee == (amount * f.avg) \div 100
                payer == amount - payee
                all == ResolutionSent(f)
                shares == [i \in DOMAIN all |-> <<all[i].to, all[i].amount>>]
            IN /\ shares =
                    (IF payee > 0
                     THEN <<(<<projects[f.pid].freelancer, payee>>)>>
                     ELSE <<>>)
                    \o (IF payer > 0
                        THEN <<(<<projects[f.pid].client, payer>>)>>
                        ELSE <<>>)
               /\ SumSeq([i \in DOMAIN all |-> all[i].amount]) = amount
               /\ \A i \in DOMAIN all :
                     all[i].amount > 0 /\ all[i].kind # "fee"

\* A resolution at 100 percent: the freelancer is sent the whole 175 and the
\* client's share of zero is not sent.
C11_Witness ==
    /\ stack = <<>>
    /\ \E d \in DisputeIds : resolvedPct[d] = 100
    /\ Len(sent) = 1
    /\ sent[1].kind = "payee"
    /\ sent[1].amount = 175

\* C12: between operations a dispute's voteCount is the number of addresses
\* recorded as having voted on it, is at most 2, and the dispute is resolved
\* exactly when voteCount is 2.
C12_QuorumResolves ==
    stack = <<>> =>
        \A d \in DisputeIds :
            d < disputeCounter =>
                /\ disputes[d].voteCount = Cardinality(Voters(disputes[d]))
                /\ disputes[d].voteCount <= 2
                /\ disputes[d].isResolved <=> disputes[d].voteCount = 2

\* A resolved dispute with two votes while a third admin that has not voted
\* is on the roster.
C12_Witness ==
    /\ stack = <<>>
    /\ \E d \in DisputeIds, a \in Addr :
          /\ d < disputeCounter
          /\ disputes[d].isResolved
          /\ disputes[d].voteCount = 2
          /\ isAdmin[a]
          /\ ~disputes[d].hasVoted[a]

\* C13: an address votes at most once on a dispute: once its vote is recorded
\* the vote never changes, and every step raises voteCount by exactly the
\* number of addresses that vote for the first time.
C13_OneVotePerAddress ==
    [][\A d \in DisputeIds :
          d < disputeCounter =>
             /\ \A a \in Addr :
                   disputes[d].hasVoted[a] =>
                      /\ disputes'[d].hasVoted[a]
                      /\ disputes'[d].votes[a] = disputes[d].votes[a]
             /\ disputes'[d].voteCount =
                   disputes[d].voteCount
                   + Cardinality(Voters(disputes'[d]) \ Voters(disputes[d]))]_vars

\* The owner has voted on an open dispute and is on the roster again after
\* having been removed from it (it now follows admin 2 in the list).
C13_Witness ==
    /\ stack = <<>>
    /\ adminList = <<2, Owner>>
    /\ ~paused
    /\ \E d \in DisputeIds :
          /\ d < disputeCounter
          /\ ~disputes[d].isResolved
          /\ disputes[d].hasVoted[Owner]

\* C14: every vote recorded on a dispute is cast by an address that is on the
\* admin roster at the moment of the vote.
C14_VotersOnRoster ==
    [][\A d \in DisputeIds, a \in Addr :
          (~disputes[d].hasVoted[a] /\ disputes'[d].hasVoted[a]) =>
             (isAdmin[a] /\ \E i \in DOMAIN adminList : adminList[i] = a)]_vars

\* C15: while the pause flag is set, only pause, unpause, addAdmin and
\* removeAdmin change the contract: the fee, the projects, the milestones,
\* the disputes, the ratings and the balance stay as they are.
C15_PausedRejects ==
    [][paused =>
          UNCHANGED <<platformFeePercent, projectVars, disputeVars, ratingVars,
                      balance, locked, historyVars>>]_vars

\* C16: the admin roster has at least one member in every reachable state.
C16_RosterNeverEmpty ==
    /\ Len(adminList) >= 1
    /\ \E a \in Addr : isAdmin[a]

\* A roster of one member that is not the deployer: only the size of the
\* roster stands between removeAdmin and an empty roster.
C16_Witness ==
    /\ stack = <<>>
    /\ adminList = <<2>>
    /\ isAdmin[2]

\* C17: in every reachable state the owner is a member of the admin roster
\* and its first element.
C17_OwnerFirst ==
    /\ isAdmin[Owner]
    /\ adminList # <<>>
    /\ adminList[1] = Owner

Submitted(p, m) == HasMilestone(p, m) /\ Milestone(p, m).status = "SUBMITTED"

TimeoutReached(p, m) ==
    now >= Milestone(p, m).submittedAt + AUTO_APPROVE_TIMEOUT

\* autoApproveMilestone is rejected for every caller before the timeout.
RejectedBeforeTimeout ==
    \A p \in ProjectIds, m \in MilestoneIds :
        (Submitted(p, m) /\ ~TimeoutReached(p, m)) =>
            \A caller \in Addr : ~ENABLED AutoApproveMilestone(caller, p, m)

\* canAutoApprove is true exactly for a SUBMITTED milestone whose timeout has
\* been reached.
CanAutoApproveExact ==
    \A p \in ProjectIds, m \in MilestoneIds :
        canAutoApprove(p, m) <=> (Submitted(p, m) /\ TimeoutReached(p, m))

\* C18 as stated: between operations, for a SUBMITTED milestone,
\* autoApproveMilestone is rejected before submittedAt + 7 days and succeeds
\* for every caller from then on; canAutoApprove is true exactly when the
\* milestone is SUBMITTED and that time has been reached.
C18_AutoApproveTiming ==
    stack = <<>> =>
        /\ RejectedBeforeTimeout
        /\ \A p \in ProjectIds, m \in MilestoneIds :
              (Submitted(p, m) /\ TimeoutReached(p, m)) =>
                  \A caller \in Addr :
                      ENABLED AutoApproveMilestone(caller, p, m)
        /\ CanAutoApproveExact

\* C18 amended: the same, with success from submittedAt + 7 days on only
\* for a milestone of an ACTIVE project while the contract is not paused.
C18_AutoApproveTimingActive ==
    stack = <<>> =>
        /\ RejectedBeforeTimeout
        /\ \A p \in ProjectIds, m \in MilestoneIds :
              (/\ Submitted(p, m)
               /\ TimeoutReached(p, m)
               /\ projects[p].status = "ACTIVE"
               /\ ~paused) =>
                  \A caller \in Addr :
                      ENABLED AutoApproveMilestone(caller, p, m)
        /\ CanAutoApproveExact

\* A SUBMITTED milestone of an ACTIVE project at the very instant its
\* timeout ends.
C18_Witness ==
    /\ stack = <<>>
    /\ ~paused
    /\ \E p \in ProjectIds, m \in MilestoneIds :
          /\ Submitted(p, m)
          /\ projects[p].status = "ACTIVE"
          /\ now = Milestone(p, m).submittedAt + AUTO_APPROVE_TIMEOUT

\* C19: from a state in which approveMilestone and autoApproveMilestone are
\* both enabled on a milestone, each step of the one is a step of the other:
\* the same resulting state and the same transfers.
C19_SameEffect ==
    [][\A p \in ProjectIds, m \in MilestoneIds :
          /\ ((\E c \in Addr : ApproveMilestone(c, p, m))
              /\ ENABLED (\E c \in Addr : AutoApproveMilestone(c, p, m)))
                => \E c \in Addr : AutoApproveMilestone(c, p, m)
          /\ ((\E c \in Addr : AutoApproveMilestone(c, p, m))
              /\ ENABLED (\E c \in Addr : ApproveMilestone(c, p, m)))
                => \E c \in Addr : ApproveMilestone(c, p, m)]_vars

\* A release of 175 at a fee of 10 percent is in flight for a milestone that
\* both the client and the timeout could approve.
C19_Witness ==
    /\ Len(stack) = 1
    /\ Top.op = "release"
    /\ Len(Top.queue) = 2
    /\ Top.queue[2].amount = 17
    /\ TimeoutReached(Top.pid, Top.mid)

\* C20: a dispute is raised only by the project's client or freelancer, on a
\* SUBMITTED milestone of an ACTIVE project, at most 3 days after the
\* submission, and it leaves milestone and project DISPUTED; once the window
\* is over raiseDispute is rejected for every caller.
C20_RaiseDisputeGuard ==
    [][/\ \A d \in DisputeIds :
             (disputeCounter <= d /\ d < disputeCounter') =>
                LET p == disputes'[d].projectId
                    m == disputes'[d].milestoneId
                IN /\ HasMilestone(p, m)
                   /\ OnlyParticipant(disputes'[d].initiator, p)
                   /\ projects[p].status = "ACTIVE"
                   /\ Milestone(p, m).status = "SUBMITTED"
                   /\ now <= Milestone(p, m).submittedAt + DISPUTE_TIMEOUT
                   /\ projects'[p].status = "DISPUTED"
                   /\ projectMilestones'[p][m + 1].status = "DISPUTED"
       /\ \A p \in ProjectIds, m \in MilestoneIds :
             (/\ HasMilestone(p, m)
              /\ now > Milestone(p, m).submittedAt + DISPUTE_TIMEOUT) =>
                \A caller \in Addr : ~ENABLED RaiseDispute(caller, p, m)]_vars

\* After one dispute has been raised and resolved, another milestone of the
\* project, ACTIVE again, is SUBMITTED and its window is over: only the
\* clock stands between a participant and a second dispute.
C20_Witness ==
    /\ stack = <<>>
    /\ ~paused
    /\ disputeCounter = 1
    /\ \E p \in ProjectIds, m \in MilestoneIds :
          /\ Submitted(p, m)
          /\ projects[p].status = "ACTIVE"
          /\ now > Milestone(p, m).submittedAt + DISPUTE_TIMEOUT

\* C21: no two disputes, resolved or not, name the same milestone of the
\* same project; so at most one unresolved dispute is open on a milestone.
C21_OneDisputePerMilestone ==
    \A d1 \in DisputeIds, d2 \in DisputeIds :
        (d1 < disputeCounter /\ d2 < disputeCounter /\ d1 # d2) =>
            \/ disputes[d1].projectId # disputes[d2].projectId
            \/ disputes[d1].milestoneId # disputes[d2].milestoneId

\* A second dispute in a project whose first dispute is resolved: the
\* project is ACTIVE again and the first milestone is no longer SUBMITTED.
C21_Witness ==
    /\ disputeCounter = 2
    /\ disputes[0].isResolved
    /\ ~disputes[1].isResolved
    /\ disputes[0].projectId = disputes[1].projectId

Amounts(p) ==
    [i \in DOMAIN projectMilestones[p] |-> projectMilestones[p][i].amount]

\* C22: a project's totalAmount is the sum of its milestones' amounts; its
\* creation keeps exactly totalAmount of the value sent and sends the excess
\* back to the creator; no later step changes totalAmount or the amounts.
C22_TotalIsSumOfAmounts ==
    [][\A p \in ProjectIds :
          /\ p < projectCounter =>
                /\ projects[p].totalAmount = SumSeq(Amounts(p))
                /\ projects'[p].totalAmount = projects[p].totalAmount
                /\ Amounts(p)' = Amounts(p)
          /\ (p >= projectCounter /\ p < projectCounter') =>
                /\ projects'[p].totalAmount = SumSeq(Amounts(p)')
                /\ balance' = balance + projects'[p].totalAmount
                /\ stack' # stack =>
                      LET f == stack'[Len(stack')]
                      IN /\ f.op = "createProject"
                         /\ Head(f.queue).to = projects'[p].client
                         /\ Head(f.queue).amount > 0]_vars

\* A project of two milestones, 2 and 175, whose creator sent 178: the
\* refund of the excess is in flight.
C22_Witness ==
    /\ Len(stack) = 1
    /\ Top.op = "createProject"
    /\ Head(Top.queue).amount = 1
    /\ projects[Top.pid].totalAmount = 177
    /\ balance = 177

Accepted(p) == projects[p].freelancer # ZeroAddress

\* C24: a freelancer is bound only to a CREATED project without one, is not
\* the client, and the project becomes ACTIVE; a bound freelancer and the
\* client never change, and acceptProject is rejected from then on.
C24_AcceptOnce ==
    [][\A p \in ProjectIds :
          p < projectCounter =>
             /\ projects'[p].client = projects[p].client
             /\ (~Accepted(p) /\ Accepted(p)') =>
                   /\ projects[p].status = "CREATED"
                   /\ projects'[p].status = "ACTIVE"
                   /\ projects'[p].freelancer # projects[p].client
             /\ Accepted(p) =>
                   /\ projects'[p].freelancer = projects[p].freelancer
                   /\ projects[p].freelancer # projects[p].client
                   /\ \A caller \in Addr : ~ENABLED AcceptProject(caller, p)
             /\ (~Accepted(p) /\ projects[p].status = "CREATED") =>
                   ~ENABLED AcceptProject(projects[p].client, p)]_vars

\* An accepted project between operations while the contract is not paused:
\* only the project itself stands between a caller and a second acceptance.
C24_Witness ==
    /\ stack = <<>>
    /\ ~paused
    /\ \E p \in ProjectIds :
          /\ p < projectCounter
          /\ Accepted(p)
          /\ projects[p].status = "ACTIVE"

\* C25: a refund is made only by cancelProject of the client on a CREATED
\* project without a freelancer; it leaves the project CANCELLED and sends
\* exactly totalAmount to the client.  A CANCELLED project, its milestones
\* and its counts never change again, no transfer is begun on its behalf,
\* and an accepted project is never CANCELLED.
C25_CancelOnce ==
    [][\A p \in ProjectIds :
          p < projectCounter =>
             /\ (\/ refundCount'[p] # refundCount[p]
                 \/ (projects[p].status # "CANCELLED"
                     /\ projects'[p].status = "CANCELLED")) =>
                   /\ projects[p].status = "CREATED"
                   /\ ~Accepted(p)
                   /\ projects'[p].status = "CANCELLED"
                   /\ refundCount'[p] = refundCount[p] + 1
                   /\ balance' = balance - projects[p].totalAmount
                   /\ Len(stack') = Len(stack) + 1
                   /\ LET f == stack'[Len(stack')]
                      IN /\ f.op = "cancelProject"
                         /\ f.pid = p
                         /\ Len(f.queue) = 1
                         /\ Head(f.queue).to = projects[p].client
                         /\ Head(f.queue).amount = projects[p].totalAmount
             /\ projects[p].status = "CANCELLED" =>
                   /\ projects'[p] = projects[p]
                   /\ projectMilestones'[p] = projectMilestones[p]
                   /\ refundCount'[p] = refundCount[p]
                   /\ \A m \in MilestoneIds :
                         releaseCount'[<<p, m>>] = releaseCount[<<p, m>>]
                   /\ Len(stack') > Len(stack) =>
                         stack'[Len(stack')].pid # p
             /\ Accepted(p) => projects'[p].status # "CANCELLED"
             /\ \A caller \in Addr :
                   caller # projects[p].client =>
                      ~ENABLED CancelProject(caller, p)]_vars

\* A cancelled and refunded project next to a project that still holds its
\* deposit: the contract has the funds a second refund would take.
C25_Witness ==
    /\ stack = <<>>
    /\ projectCounter = 2
    /\ \E p \in ProjectIds, q \in ProjectIds :
          /\ projects[p].status = "CANCELLED"
          /\ refundCount[p] = 1
          /\ projects[q].status = "CREATED"
          /\ balance >= projects[p].totalAmount
          /\ projects[p].totalAmount > 0

EveryMilestoneApproved(p) ==
    /\ Len(projectMilestones[p]) > 0
    /\ \A i \in DOMAIN projectMilestones[p] :
          projectMilestones[p][i].status = "APPROVED"

\* Project p is ACTIVE with every milestone APPROVED and no release of one
\* of its milestones is under way.
ActiveButFinished(p) ==
    /\ p < projectCounter
    /\ projects[p].status = "ACTIVE"
    /\ EveryMilestoneApproved(p)
    /\ \A f \in Frames : ~(f.op = "release" /\ f.pid = p)

\* C26: the step that resolves a dispute leaves the project ACTIVE, also
\* when every milestone is then APPROVED; and a project that is ACTIVE with
\* every milestone APPROVED stays so in every later state.
C26_ResolutionNeverCompletes ==
    [][/\ \A d \in DisputeIds :
             (d < disputeCounter
              /\ ~disputes[d].isResolved /\ disputes'[d].isResolved) =>
                 projects'[disputes[d].projectId].status = "ACTIVE"
       /\ \A p \in ProjectIds :
             ActiveButFinished(p) => ActiveButFinished(p)']_vars

\* The dispute on the only milestone of a project is resolved: the project
\* is ACTIVE with nothing left to approve.
C26_Witness ==
    /\ stack = <<>>
    /\ ~paused
    /\ \E d \in DisputeIds :
          /\ d < disputeCounter
          /\ disputes[d].isResolved
          /\ ActiveButFinished(disputes[d].projectId)

Shares(f) ==
    [i \in DOMAIN ResolutionSent(f) |->
        <<ResolutionSent(f)[i].to, ResolutionSent(f)[i].amount>>]

\* The effect of the release step: the milestone is APPROVED, the freelancer
\* is sent the amount less the fee and the owner the fee.
ReleaseEffect(f) ==
    LET amount == Milestone(f.pid, f.mid).amount
        fee == (amount * platformFeePercent) \div 100
    IN /\ Milestone(f.pid, f.mid).status = "APPROVED"
       /\ Shares(f) = <<(<<projects[f.pid].freelancer, amount - fee>>),
                        (<<Owner, fee>>)>>

Disputed(p) ==
    \E d \in DisputeIds : d < disputeCounter /\ disputes[d].projectId = p

\* C28 as stated: an approval, an auto-approval and a dispute resolution at
\* 100 percent all have the effect of the release step, and leave the
\* project COMPLETED when every milestone is APPROVED.
C28_SingleReleaseStep ==
    /\ \A f \in Frames :
          (f.op = "release" \/ (f.op = "resolve" /\ f.avg = 100)) =>
              ReleaseEffect(f)
    /\ stack = <<>> =>
          \A p \in ProjectIds :
              (p < projectCounter /\ EveryMilestoneApproved(p)) =>
                  projects[p].status = "COMPLETED"

\* C28 amended: an approval and an auto-approval have the effect of the
\* release step and leave a project without disputes COMPLETED when every
\* milestone is APPROVED; a resolution at 100 percent sends the whole amount
\* to the freelancer and no fee.
C28_ApprovalsShareRelease ==
    /\ \A f \in Frames :
          /\ f.op = "release" => ReleaseEffect(f)
          /\ (f.op = "resolve" /\ f.avg = 100) =>
                Shares(f) = <<(<<projects[f.pid].freelancer,
                                Milestone(f.pid, f.mid).amount>>)>>
    /\ stack = <<>> =>
          \A p \in ProjectIds :
              (p < projectCounter /\ EveryMilestoneApproved(p)) =>
                  /\ ~Disputed(p) => projects[p].status = "COMPLETED"
                  /\ projects[p].status \in {"COMPLETED", "ACTIVE"}

\* A resolution at 100 percent of a milestone of 175 is in flight while the
\* fee is 2 percent: a release would send 172 and 3.
C28_Witness ==
    /\ Len(stack) = 1
    /\ Top.op = "resolve"
    /\ Top.avg = 100
    /\ Milestone(Top.pid, Top.mid).amount = 175
    /\ platformFeePercent = 2

\* C29: the fee percentage starts at 2 and is at most 10 in every reachable
\* state; setPlatformFee succeeds only for the owner and only with a value
\* of at most 10; the payee of an approved or auto-approved milestone is
\* sent at least 90 percent of its amount.
C29_FeeAtMostTen ==
    /\ platformFeePercent = InitialFeePercent
    /\ [](/\ platformFeePercent <= 10
          /\ \A f \in Frames :
                (f.op = "release" /\ Len(f.queue) = 2) =>
                    /\ f.queue[1].to = projects[f.pid].freelancer
                    /\ f.queue[1].amount * 100 >=
                           Milestone(f.pid, f.mid).amount * 90
          /\ stack = <<>> =>
                \A c \in Addr, fee \in {0, 10, 11} :
                    ENABLED SetPlatformFee(c, fee) <=>
                        (c = Owner /\ fee <= 10))

\* A milestone of 175 is being released at the largest fee: 158 are on
\* their way to the freelancer.
C29_Witness ==
    /\ platformFeePercent = 10
    /\ Len(stack) = 1
    /\ Top.op = "release"
    /\ Len(Top.queue) = 2
    /\ Top.queue[1].to = projects[Top.pid].freelancer
    /\ Top.queue[1].amount = 158
    /\ Milestone(Top.pid, Top.mid).amount = 175

\* C30: removeAdmin by the owner succeeds exactly on a member of a roster
\* of two or more and for nobody else; it clears the member's flag only,
\* shortens the list by one and puts the former last element where the
\* removed one was, every other position unchanged.
C30_RemoveAdminSwapAndPop ==
    [][/\ Len(adminList') < Len(adminList) =>
            \E i \in 1 .. Len(adminList) :
                LET a == adminList[i]
                    last == Len(adminList)
                IN /\ last >= 2
                   /\ isAdmin[a]
                   /\ isAdmin' = [isAdmin EXCEPT ![a] = FALSE]
                   /\ Len(adminList') = last - 1
                   /\ \A j \in 1 .. (last - 1) :
                         adminList'[j] = IF j = i THEN adminList[last]
                                                 ELSE adminList[j]
       /\ stack = <<>> =>
            \A c \in Addr, a \in AllAddr :
                ENABLED RemoveAdmin(c, a) <=>
                    (c = Owner /\ isAdmin[a] /\ Len(adminList) >= 2)
      ]_vars

\* The owner has been removed from the head of a roster of three: the last
\* admin took its place.
C30_Witness ==
    /\ adminList = <<3, 2>>
    /\ ~isAdmin[Owner]
    /\ isAdmin[2]
    /\ isAdmin[3]

\* The positions of the roster list that hold address a.
Occurrences(a) == {i \in DOMAIN adminList : adminList[i] = a}

\* C31: addAdmin succeeds exactly for the owner with a non-zero address that
\* is not a member, and appends it at the end of the list; in every
\* reachable state an address has its flag set if and only if it occurs in
\* the list, and then it occurs there exactly once.
C31_RosterMatchesFlags ==
    /\ [](\A a \in AllAddr :
            /\ isAdmin[a] <=> Occurrences(a) # {}
            /\ Cardinality(Occurrences(a)) <= 1)
    /\ [][/\ Len(adminList') > Len(adminList) =>
               \E a \in AllAddr :
                   /\ a # ZeroAddress
                   /\ ~isAdmin[a]
                   /\ isAdmin' = [isAdmin EXCEPT ![a] = TRUE]
                   /\ adminList' = Append(adminList, a)
          /\ stack = <<>> =>
               \A c \in Addr, a \in AllAddr :
                   ENABLED AddAdmin(c, a) <=>
                       (c = Owner /\ a # ZeroAddress /\ ~isAdmin[a])
         ]_vars

\* The owner has been removed from a roster of three and added again: it is
\* now the last of the list.
C31_Witness ==
    /\ adminList = <<3, 2, Owner>>
    /\ \A a \in Addr : isAdmin[a]

\* C32: submitMilestone succeeds exactly when the caller is the project's
\* freelancer, the contract is not paused, the project is ACTIVE, the
\* milestone exists and is PENDING and the deliverable reference is not
\* empty; it sets SUBMITTED and submittedAt to the current time; a milestone
\* is submitted at most once: after that its submittedAt and its deliverable
\* reference never change.
C32_SubmitOnce ==
    [][/\ \A p \in ProjectIds, m \in MilestoneIds :
             HasMilestone(p, m) =>
                /\ (Milestone(p, m).status # "SUBMITTED"
                    /\ Milestone(p, m)'.status = "SUBMITTED") =>
                       /\ Milestone(p, m).status = "PENDING"
                       /\ projects[p].status = "ACTIVE"
                       /\ Milestone(p, m)'.submittedAt = now
                       /\ Milestone(p, m)'.deliverableHash # ""
                /\ Milestone(p, m).status # "PENDING" =>
                       /\ Milestone(p, m)'.status # "PENDING"
                       /\ Milestone(p, m)'.submittedAt =
                              Milestone(p, m).submittedAt
                       /\ Milestone(p, m)'.deliverableHash =
                              Milestone(p, m).deliverableHash
       /\ stack = <<>> =>
             \A c \in Addr, p \in ProjectIds, m \in MilestoneIds,
                h \in Hashes :
                 ENABLED SubmitMilestone(c, p, m, h) <=>
                     /\ HasMilestone(p, m)
                     /\ c = projects[p].freelancer
                     /\ ~paused
                     /\ projects[p].status = "ACTIVE"
                     /\ Milestone(p, m).status = "PENDING"
                     /\ h # ""
      ]_vars

\* A milestone submitted on the third day is still SUBMITTED on the seventh,
\* with the time of its submission.
C32_Witness ==
    \E p \in ProjectIds, m \in MilestoneIds :
        /\ HasMilestone(p, m)
        /\ Milestone(p, m).status = "SUBMITTED"
        /\ Milestone(p, m).submittedAt = 3 * DAY
        /\ Milestone(p, m).deliverableHash = "QmHash"
        /\ now = 7 * DAY

\* The roster members that voted on dispute d, in roster order.
RosterVoters(d) ==
    LET Voted(a) == disputes[d].hasVoted[a]
    IN SelectSeq(adminList, Voted)

\* C33: getDisputeVotes returns the dispute's vote count and resolved flag
\* and two lists of equal length: the current roster members that voted on
\* the dispute, in roster order, and the percentage each of them submitted.
C33_VotesOfCurrentRoster ==
    \A d \in DisputeIds :
        d < disputeCounter =>
            LET r == getDisputeVotes(d)
            IN /\ r.voteCount = disputes[d].voteCount
               /\ r.isResolved = disputes[d].isResolved
               /\ Len(r.voters) = Len(r.percentages)
               /\ r.voters = RosterVoters(d)
               /\ \A i \in DOMAIN r.voters :
                     r.percentages[i] = disputes[d].votes[r.voters[i]]

\* Admin 3 and the owner have voted; the owner has since been removed and
\* added again, so the roster lists 3, then 2 (who did not vote), then the
\* owner.
C33_Witness ==
    /\ adminList = <<3, 2, Owner>>
    /\ \E d \in DisputeIds :
          /\ d < disputeCounter
          /\ getDisputeVotes(d).voters = <<3, Owner>>
          /\ getDisputeVotes(d).percentages = <<45, 100>>

\* C35: the number of voters getDisputeVotes returns is the vote count it
\* returns.
C35_VotersMatchCount ==
    \A d \in DisputeIds :
        d < disputeCounter =>
            Len(getDisputeVotes(d).voters) = getDisputeVotes(d).voteCount

\* C34: project ids and dispute ids start at zero and each successful
\* createProject or raiseDispute takes the next one; a counter moves only
\* together with the creation of the record of that id, and the record of
\* an id that has been assigned is never given to another project or
\* dispute, also after a cancellation.
C34_IdsNeverReused ==
    /\ projectCounter = 0
    /\ disputeCounter = 0
    /\ [][/\ projectCounter' \in {projectCounter, projectCounter + 1}
          /\ disputeCounter' \in {disputeCounter, disputeCounter + 1}
          /\ projectCounter' = projectCounter + 1 =>
                /\ projects'[projectCounter].client # ZeroAddress
                /\ projects'[projectCounter].status = "CREATED"
                /\ projectMilestones'[projectCounter] # <<>>
          /\ disputeCounter' = disputeCounter + 1 =>
                /\ disputes'[disputeCounter].initiator # ZeroAddress
                /\ ~disputes'[disputeCounter].isResolved
                /\ projects'[disputes'[disputeCounter].projectId].status =
                      "DISPUTED"
          /\ \A p \in ProjectIds :
                IF p < projectCounter
                THEN /\ projects'[p].client = projects[p].client
                     /\ projects'[p].totalAmount = projects[p].totalAmount
                     /\ Amounts(p)' = Amounts(p)
                ELSE \/ /\ projects'[p] = EmptyProject
                        /\ projectMilestones'[p] = <<>>
                     \/ p = projectCounter /\ projectCounter' = p + 1
          /\ \A d \in DisputeIds :
                IF d < disputeCounter
                THEN /\ disputes'[d].projectId = disputes[d].projectId
                     /\ disputes'[d].milestoneId = disputes[d].milestoneId
                     /\ disputes'[d].initiator = disputes[d].initiator
                ELSE \/ disputes'[d] = EmptyDispute
                     \/ d = disputeCounter /\ disputeCounter' = d + 1
         ]_vars

\* Project 0 has been cancelled and project 1, created after it, is under
\* dispute 0.
C34_Witness ==
    /\ projectCounter = 2
    /\ projects[0].status = "CANCELLED"
    /\ projects[1].status = "DISPUTED"
    /\ disputeCounter = 1
    /\ disputes[0].projectId = 1

\* A vote of caller c on dispute d would pass the checks of voteOnDispute
\* and bring the dispute to quorum.
QuorumVote(c, d) ==
    /\ OnlyAdmin(c)
    /\ ~paused
    /\ d < disputeCounter
    /\ ~disputes[d].isResolved
    /\ ~disputes[d].hasVoted[c]
    /\ disputes[d].voteCount + 1 >= REQUIRED_ADMIN_VOTES

\* C36: whenever a vote brings a dispute to quorum, one of the addresses
\* that voted on it (the caller included) is on the roster, and the vote
\* succeeds.
C36_QuorumVoteDivides ==
    stack = <<>> =>
        \A c \in Addr, d \in DisputeIds :
            QuorumVote(c, d) =>
                /\ \E i \in DOMAIN adminList :
                      \/ adminList[i] = c
                      \/ disputes[d].hasVoted[adminList[i]]
                /\ ENABLED VoteOnDispute(c, d, 45)

\* C37: every dispute that has been raised is eventually resolved.
C37_DisputeEventuallyResolved ==
    \A d \in DisputeIds :
        (d < disputeCounter) ~> (d < disputeCounter /\ disputes[d].isResolved)

\* The unresolved disputes that reference project p, and milestone m of it.
OpenDisputes(p) ==
    {d \in DisputeIds : /\ d < disputeCounter
                        /\ ~disputes[d].isResolved
                        /\ disputes[d].projectId = p}

OpenDisputesOn(p, m) == {d \in OpenDisputes(p) : disputes[d].milestoneId = m}

\* C38: between operations a project is DISPUTED if and only if exactly one
\* unresolved dispute references it (and otherwise none does), a milestone
\* is DISPUTED if and only if an unresolved dispute references it, and no
\* project has two DISPUTED milestones.
C38_DisputedIffOpenDispute ==
    stack = <<>> =>
        \A p \in ProjectIds :
            p < projectCounter =>
                /\ projects[p].status = "DISPUTED" <=>
                      Cardinality(OpenDisputes(p)) = 1
                /\ Cardinality(OpenDisputes(p)) <= 1
                /\ \A m \in MilestoneIds :
                      m < Len(projectMilestones[p]) =>
                          (Milestone(p, m).status = "DISPUTED" <=>
                              OpenDisputesOn(p, m) # {})
                /\ Cardinality({m \in MilestoneIds :
                                   /\ m < Len(projectMilestones[p])
                                   /\ Milestone(p, m).status = "DISPUTED"}) <= 1

\* A project of two submitted milestones, the first of them under dispute:
\* only the project's status keeps the second from being disputed as well.
C38_Witness ==
    /\ stack = <<>>
    /\ disputeCounter = 1
    /\ \E p \in ProjectIds :
          /\ HasMilestone(p, 1)
          /\ projects[p].status = "DISPUTED"
          /\ Milestone(p, 0).status = "DISPUTED"
          /\ Milestone(p, 1).status = "SUBMITTED"
          /\ WithinDisputeWindow(Milestone(p, 1))

\* No call other than voteOnDispute is accepted on project p.
ProjectCallsRejected(p) ==
    \A c \in Addr :
        /\ ~ENABLED AcceptProject(c, p)
        /\ ~ENABLED CancelProject(c, p)
        /\ \A m \in MilestoneIds :
              /\ \A h \in Hashes : ~ENABLED SubmitMilestone(c, p, m, h)
              /\ ~ENABLED ApproveMilestone(c, p, m)
              /\ ~ENABLED AutoApproveMilestone(c, p, m)
              /\ ~ENABLED RaiseDispute(c, p, m)

\* C39: while a project is DISPUTED, submitMilestone, approveMilestone,
\* autoApproveMilestone, raiseDispute, acceptProject and cancelProject are
\* rejected for every caller and milestone of it; the project and its
\* milestones change only when the resolution of its open dispute
\* completes, and until then only the disputed milestone is paid out, by
\* that resolution.
C39_DisputedProjectFrozen ==
    [][\A p \in ProjectIds :
          (p < projectCounter /\ projects[p].status = "DISPUTED") =>
             /\ stack = <<>> => ProjectCallsRejected(p)
             /\ (projects'[p] # projects[p]
                 \/ projectMilestones'[p] # projectMilestones[p]) =>
                   /\ stack # <<>>
                   /\ Top.op = "resolve"
                   /\ Top.pid = p
                   /\ Top.did \in OpenDisputes(p)
                   /\ disputes'[Top.did].isResolved
                   /\ projects'[p].status = "ACTIVE"
             /\ \A m \in MilestoneIds :
                   releaseCount'[<<p, m>>] # releaseCount[<<p, m>>] =>
                       /\ OpenDisputesOn(p, m) # {}
                       /\ stack' # <<>>
                       /\ stack'[Len(stack')].op = "resolve"]_vars

\* A vote has been cast on the dispute of a project whose other milestone
\* is SUBMITTED and past its auto-approval timeout.
C39_Witness ==
    /\ stack = <<>>
    /\ ~paused
    /\ \E p \in ProjectIds, m \in MilestoneIds, d \in DisputeIds :
          /\ HasMilestone(p, m)
          /\ projects[p].status = "DISPUTED"
          /\ Milestone(p, m).status = "SUBMITTED"
          /\ TimeoutReached(p, m)
          /\ d \in OpenDisputes(p)
          /\ disputes[d].voteCount = 1

\* The clock of the run reaches the end of the milestone's timeout.
TimeoutWithinRun(p, m) ==
    Milestone(p, m).submittedAt + AUTO_APPROVE_TIMEOUT
        <= LiveStamps[Len(LiveStamps)]

\* C40: a SUBMITTED milestone of an ACTIVE project is eventually APPROVED,
\* unless the project is put into DISPUTED, when time passes, transfers
\* return and autoApproveMilestone is called once it is accepted; the
\* client need not do anything.
C40_EventuallyAutoApproved ==
    \A p \in ProjectIds, m \in MilestoneIds :
        (/\ Submitted(p, m)
         /\ projects[p].status = "ACTIVE"
         /\ TimeoutWithinRun(p, m))
        ~> (\/ HasMilestone(p, m) /\ Milestone(p, m).status = "APPROVED"
            \/ projects[p].status = "DISPUTED")

\* A milestone submitted on day 7 has been paid out by day 14 and no dispute
\* was ever raised.
C40_Witness ==
    /\ stack = <<>>
    /\ disputeCounter = 0
    /\ now = 14 * DAY
    /\ \E p \in ProjectIds, m \in MilestoneIds :
          /\ HasMilestone(p, m)
          /\ Milestone(p, m).status = "APPROVED"
          /\ Milestone(p, m).submittedAt = 7 * DAY
          /\ releaseCount[<<p, m>>] = 1
====
